---------------------------- MODULE Spec2Model ----------------------------
(***************************************************************************)
(* The HTTP adapter of src/app.py: the two Flask routes                    *)
(*   POST /heatwave        (predict_heatwave)                              *)
(*   GET  /api/historical  (get_historical_data)                           *)
(* The forecasting Model (heatwave_model.HeatwavePredictionModel) and the  *)
(* dataset file are collaborators: what the Model answers and what the     *)
(* file holds are fixed when the process starts and are never written by   *)
(* the routes.  Each request is one step; the step records the request,    *)
(* the response and the calls the handler made on its collaborators.       *)
(*                                                                         *)
(* Text is a sequence of one-character strings, so that Python's substring *)
(* test, date parsing and strftime are computed and not assumed.           *)
(***************************************************************************)
EXTENDS Integers, Sequences, FiniteSets

VARIABLES
    forecastOutcome,  \* what model.predict_heatwave does in this run
    dataFile,         \* the state of model.data_file on disk in this run
    request,          \* the request handled last
    response,         \* the response returned last: [code, body]
    modelCalls,       \* arguments of model.predict_heatwave during that request
    datasetOps        \* operations on the dataset file during that request

vars == <<forecastOutcome, dataFile, request, response, modelCalls, datasetOps>>

(***************************************************************************)
(* Bounds of the model.                                                    *)
(***************************************************************************)
MaxRows == 2          \* longest forecast table the Model returns
MaxRecords == 3       \* most rows in the dataset file
MaxSpecRecords == 1   \* most rows in the dataset file under Spec

(***************************************************************************)
(* Python values (the result of request.get_json(), request.args.get).     *)
(***************************************************************************)
PyNone == [t |-> "none"]
PyBool(b) == [t |-> "bool", b |-> b]
PyNum(n) == [t |-> "num", n |-> n]
PyStr(s) == [t |-> "str", s |-> s]
PyList(items) == [t |-> "list", items |-> items]
PyDict(pairs) == [t |-> "dict", pairs |-> pairs]

CITY == <<"c", "i", "t", "y">>     \* the literal 'city'

\* bool(v): Python truth value, as used by `not data` and `not city`
Truthy(v) ==
    CASE v.t = "none" -> FALSE
      [] v.t = "bool" -> v.b
      [] v.t = "num"  -> v.n # 0
      [] v.t = "str"  -> v.s # <<>>
      [] v.t = "list" -> v.items # <<>>
      [] v.t = "dict" -> v.pairs # <<>>

\* sub occurs in s as a contiguous run (Python's `sub in s` on str)
IsSubstring(sub, s) ==
    \E i \in 0..(Len(s) - Len(sub)) :
        \A j \in 1..Len(sub) : s[i + j] = sub[j]

Ok(v) == [raises |-> FALSE, val |-> v]
Raise(type, msg) == [raises |-> TRUE, exc |-> [type |-> type, msg |-> msg]]

\* `key in v` for a str key
Contains(key, v) ==
    CASE v.t = "str"  -> Ok(IsSubstring(key, v.s))
      [] v.t = "list" -> Ok(\E i \in 1..Len(v.items) : v.items[i] = PyStr(key))
      [] v.t = "dict" -> Ok(\E i \in 1..Len(v.pairs) : v.pairs[i][1] = key)
      [] v.t = "bool" -> Raise("TypeError", "argument of type 'bool' is not iterable")
      [] v.t = "num"  -> Raise("TypeError", "argument of type 'int' is not iterable")
      [] v.t = "none" -> Raise("TypeError", "argument of type 'NoneType' is not iterable")

\* `v[key]` for a str key
GetItem(v, key) ==
    CASE v.t = "dict" ->
            IF \E i \in 1..Len(v.pairs) : v.pairs[i][1] = key
            THEN Ok(v.pairs[CHOOSE i \in 1..Len(v.pairs) : v.pairs[i][1] = key][2])
            ELSE Raise("KeyError", "'city'")
      [] v.t = "str"  -> Raise("TypeError", "string indices must be integers")
      [] v.t = "list" -> Raise("TypeError", "list indices must be integers or slices, not str")
      [] OTHER        -> Raise("TypeError", "object is not subscriptable")

(***************************************************************************)
(* jsonify(...), status                                                    *)
(***************************************************************************)
ErrorResponse(error, message, code) ==
    [code |-> code,
     body |-> [error |-> error, message |-> message, status |-> "error"]]

SuccessResponse(body) == [code |-> 200, body |-> body]

(***************************************************************************)
(* Calendar arithmetic behind pd.to_datetime and strftime('%Y-%m-%d').     *)
(***************************************************************************)
Digits == <<"0", "1", "2", "3", "4", "5", "6", "7", "8", "9">>

IsDigit(c) == \E i \in 1..10 : Digits[i] = c

DigitVal(c) == (CHOOSE i \in 1..10 : Digits[i] = c) - 1

IsLeap(y) == (y % 4 = 0 /\ y % 100 # 0) \/ y % 400 = 0

DaysInMonth(y, m) ==
    IF m = 2 THEN (IF IsLeap(y) THEN 29 ELSE 28)
    ELSE IF m \in {4, 6, 9, 11} THEN 30 ELSE 31

NaT == [nat |-> TRUE]
Timestamp(y, m, d) == [nat |-> FALSE, y |-> y, m |-> m, d |-> d]

\* the civil date of a day count since 1970-01-01 (proleptic Gregorian)
CivilFromDays(days) ==
    LET z   == days + 719468
        era == z \div 146097
        doe == z - era * 146097
        yoe == (doe - doe \div 1460 + doe \div 36524 - doe \div 146096) \div 365
        doy == doe - (365 * yoe + yoe \div 4 - yoe \div 100)
        mp  == (5 * doy + 2) \div 153
        d   == doy - (153 * mp + 2) \div 5 + 1
        m   == IF mp < 10 THEN mp + 3 ELSE mp - 9
        y   == yoe + era * 400 + (IF m <= 2 THEN 1 ELSE 0)
    IN  Timestamp(y, m, d)

\* pd.to_datetime(text, errors='coerce') on ISO calendar-day text; anything
\* that is not a calendar day is coerced to NaT
to_datetime_coerce(text) ==
    IF /\ Len(text) = 10
       /\ text[5] = "-" /\ text[8] = "-"
       /\ \A i \in {1, 2, 3, 4, 6, 7, 9, 10} : IsDigit(text[i])
    THEN LET y == 1000 * DigitVal(text[1]) + 100 * DigitVal(text[2])
                  + 10 * DigitVal(text[3]) + DigitVal(text[4])
             m == 10 * DigitVal(text[6]) + DigitVal(text[7])
             d == 10 * DigitVal(text[9]) + DigitVal(text[10])
         IN  IF m \in 1..12 /\ d >= 1 /\ d <= DaysInMonth(y, m)
             THEN Ok(Timestamp(y, m, d))
             ELSE Ok(NaT)
    ELSE Ok(NaT)

\* pd.to_datetime(value, unit='ns'): no errors='coerce', so a count outside
\* Timestamp.min..Timestamp.max raises.  The nanosecond count is held as
\* whole days and seconds of the day since the epoch.
to_datetime_ns(value) ==
    IF value.nan THEN Ok(NaT)
    ELSE IF \/ value.days > 106751
            \/ (value.days = 106751 /\ value.secs > 85636)
            \/ value.days < -106752
         THEN Raise("OutOfBoundsDatetime", "cannot convert input with the unit 'ns'")
         ELSE Ok(CivilFromDays(value.days))

Pad2(n) == <<Digits[((n \div 10) % 10) + 1], Digits[(n % 10) + 1]>>

\* date_obj.strftime('%Y-%m-%d')
strftime(date_obj) ==
    Pad2(date_obj.y \div 100) \o Pad2(date_obj.y % 100) \o <<"-">>
        \o Pad2(date_obj.m) \o <<"-">> \o Pad2(date_obj.d)

NotAvailable == <<"N", "/", "A">>      \* the literal "N/A"

\* lines 53-63: row['time'] to the output date text
formatted_date(date_value) ==
    LET date_obj ==
            IF date_value.kind = "str" THEN to_datetime_coerce(date_value.text)
            ELSE IF date_value.kind = "native" THEN Ok(date_value.value)
            ELSE to_datetime_ns(date_value)
    IN  IF date_obj.raises THEN date_obj
        ELSE IF date_obj.val.nat THEN Ok(NotAvailable)
        ELSE Ok(strftime(date_obj.val))

PyFloat(h) == [t |-> "float", h |-> h]      \* a float, in hundredths

\* int(x)
PyInt(x) ==
    CASE x.t = "bool"  -> IF x.b THEN 1 ELSE 0
      [] x.t = "num"   -> x.n
      [] x.t = "float" -> x.h \div 100

\* float(x)
ToFloat(x) ==
    CASE x.t = "float" -> x
      [] x.t = "num"   -> PyFloat(100 * x.n)
      [] x.t = "bool"  -> PyFloat(IF x.b THEN 100 ELSE 0)

\* lines 64-77: one entry of "predictions"
FormatRow(row) ==
    LET date == formatted_date(row.time)
    IN  IF date.raises THEN date
        ELSE Ok([date |-> date.val,
                 temperature_2m_max |-> row.temperature_2m_max,
                 apparent_temperature_max |-> row.apparent_temperature_max,
                 relative_humidity_2m_mean |-> row.relative_humidity_2m_mean,
                 wind_speed_10m_max |-> row.wind_speed_10m_max,
                 cloud_cover_mean |-> row.cloud_cover_mean,
                 precipitation_sum |-> row.precipitation_sum,
                 is_heatwave |-> PyInt(row.is_heatwave),
                 heatwave_probability |-> ToFloat(row.heatwave_probability),
                 alert_level |-> row.alert_level,
                 alert_color |-> row.alert_color,
                 recommended_action |-> row.recommended_action])

\* FormatForecast with each entry put in front of the list instead of
\* appended (the order of the rows is lost); C6 must fail on it
FormatForecast_reversed(forecast) ==
    LET n == Len(forecast)
        formatted == [i \in 1..n |-> FormatRow(forecast[i])]
    IN  IF \E i \in 1..n : formatted[i].raises
        THEN formatted[CHOOSE i \in 1..n :
                          /\ formatted[i].raises
                          /\ \A j \in 1..(i - 1) : ~formatted[j].raises]
        ELSE Ok([i \in 1..n |-> formatted[n + 1 - i].val])

\* lines 50-77: the loop over forecast.iterrows(); the first row that raises
\* ends the loop
FormatForecast(forecast) ==
    LET formatted == [i \in 1..Len(forecast) |-> FormatRow(forecast[i])]
    IN  IF \E i \in 1..Len(forecast) : formatted[i].raises
        THEN formatted[CHOOSE i \in 1..Len(forecast) :
                          /\ formatted[i].raises
                          /\ \A j \in 1..(i - 1) : ~formatted[j].raises]
        ELSE Ok([i \in 1..Len(forecast) |-> formatted[i].val])

(***************************************************************************)
(* POST /heatwave                                                          *)
(***************************************************************************)
JSON == "application/json"
PLAIN == "text/plain"
FORM == "application/x-www-form-urlencoded"

\* request.data: the raw body; empty when there is none and when Werkzeug
\* has consumed it as form data
request_data_present(req) == req.body.present /\ req.content_type # FORM

\* request.get_json(): the results it can have.  A body that does not parse
\* raises BadRequest (an HTTPException), never json.JSONDecodeError.  What a
\* content type that is not JSON gives depends on the installed
\* Flask/Werkzeug: None, a BadRequest or an UnsupportedMediaType.
get_json(req) ==
    IF req.content_type # JSON
    THEN {Ok(PyNone),
          Raise("BadRequest", "400 Bad Request: Did not attempt to load JSON data"),
          Raise("UnsupportedMediaType",
                "415 Unsupported Media Type: Did not attempt to load JSON data")}
    ELSE IF ~req.body.wellformed
         THEN {Raise("BadRequest", "400 Bad Request: Failed to decode JSON object")}
         ELSE {Ok(req.body.value)}

\* model.predict_heatwave(city): the Model's answer, a table or an exception
model_predict_heatwave(city) == forecastOutcome

\* what the try block did: its result and the Model calls it made
Outcome(r, calls) == [r |-> r, calls |-> calls]

\* line 37: not data or 'city' not in data
city_missing(data) ==
    IF ~Truthy(data) THEN Ok(TRUE)
    ELSE LET c == Contains(CITY, data)
         IN  IF c.raises THEN c ELSE Ok(~c.val)

\* lines 47-84: call the Model, format its rows, build the 200 response
forecast_response(city) ==
    LET forecast == model_predict_heatwave(city)
    IN  IF forecast.raises THEN Outcome(forecast, <<city>>)
        ELSE LET predictions == FormatForecast(forecast.val)
             IN  IF predictions.raises THEN Outcome(predictions, <<city>>)
                 ELSE Outcome(Ok(SuccessResponse(
                            [city |-> city,
                             predictions |-> predictions.val,
                             message |-> <<"Forecast generated successfully">>,
                             status |-> "success"])), <<city>>)

\* lines 19-84: the body of the try block, parsed being what
\* request.get_json() did
try_predict_heatwave(req, parsed) ==
    IF ~request_data_present(req)
    THEN Outcome(Ok(ErrorResponse("Empty request body",
                                  <<"Request must contain JSON data">>, 400)), <<>>)
    ELSE     IF parsed.raises
             THEN IF parsed.exc.type = "JSONDecodeError"
                  THEN Outcome(Ok(ErrorResponse("Invalid JSON",
                                     <<"Request must be valid JSON">>, 400)), <<>>)
                  ELSE Outcome(parsed, <<>>)
             ELSE LET data == parsed.val
                      missing == city_missing(data)
                  IN  IF missing.raises THEN Outcome(missing, <<>>)
                      ELSE IF missing.val
                      THEN Outcome(Ok(ErrorResponse("Missing parameter",
                                  <<"City parameter is required in JSON body">>, 400)),
                                   <<>>)
                      ELSE LET city == GetItem(data, CITY)
                           IN  IF city.raises THEN Outcome(city, <<>>)
                               ELSE forecast_response(city.val)

\* except_predict_heatwave answering with a fixed error text instead of
\* str(e); C5 must fail on it
except_predict_heatwave_generic(out) ==
    IF out.r.raises
    THEN ErrorResponse("Internal Server Error", <<"Failed to process your request">>, 500)
    ELSE out.r.val

\* lines 86-91: except Exception as e
except_predict_heatwave(out) ==
    IF out.r.raises
    THEN ErrorResponse(out.r.exc.msg, <<"Failed to process your request">>, 500)
    ELSE out.r.val

(***************************************************************************)
(* GET /api/historical                                                     *)
(***************************************************************************)
RECURSIVE Sum(_)
Sum(s) == IF s = <<>> THEN 0 ELSE s[1] + Sum(Tail(s))

Max(s) == CHOOSE x \in {s[i] : i \in 1..Len(s)} : \A i \in 1..Len(s) : s[i] <= x

Min(s) == CHOOSE x \in {s[i] : i \in 1..Len(s)} : \A i \in 1..Len(s) : x <= s[i]

\* Series.mean(): the sum over the count, kept as a fraction
Mean(s) == [num |-> Sum(s), den |-> Len(s)]

Column(rows, name) == [i \in 1..Len(rows) |-> rows[i][name]]

\* Series.unique(): the distinct values in order of first appearance
RECURSIVE unique(_)
unique(s) ==
    IF s = <<>> THEN <<>>
    ELSE LET init == unique(SubSeq(s, 1, Len(s) - 1))
             last == s[Len(s)]
         IN  IF \E i \in 1..Len(init) : init[i] = last
             THEN init
             ELSE Append(init, last)

\* year_summary without the filter on the year (every summary aggregates all
\* of the city's rows); C9 must fail on it
year_summary_all_years(city_data, year) ==
    [year |-> year,
     max_temp |-> Max(Column(city_data, "temperature_2m_max")),
     min_temp |-> Min(Column(city_data, "temperature_2m_max")),
     avg_temp |-> Mean(Column(city_data, "temperature_2m_max")),
     heatwave_days |-> Sum(Column(city_data, "is_heatwave")),
     precipitation |-> Sum(Column(city_data, "precipitation_sum")),
     humidity |-> Mean(Column(city_data, "relative_humidity_2m_mean"))]

\* lines 127-136: the summary of one year of the city's rows
year_summary(city_data, year) ==
    LET InYear(r) == r.year = year
        year_data == SelectSeq(city_data, InYear)
    IN  [year |-> year,
         max_temp |-> Max(Column(year_data, "temperature_2m_max")),
         min_temp |-> Min(Column(year_data, "temperature_2m_max")),
         avg_temp |-> Mean(Column(year_data, "temperature_2m_max")),
         heatwave_days |-> Sum(Column(year_data, "is_heatwave")),
         precipitation |-> Sum(Column(year_data, "precipitation_sum")),
         humidity |-> Mean(Column(year_data, "relative_humidity_2m_mean"))]

\* lines 125-136: one summary per year, in the order unique() gives
formatted_data(city_data) ==
    LET years == unique(Column(city_data, "year"))
    IN  [i \in 1..Len(years) |-> year_summary(city_data, years[i])]

\* line 114: pd.read_csv(model.data_file)
read_csv(file) ==
    IF file.readable THEN Ok(file.rows)
    ELSE Raise("EmptyDataError", "No columns to parse from file")

\* line 115: historical_data[historical_data['city'] == city]
filter_city(historical_data, city) ==
    LET IsCity(r) == r.city = city.s
    IN  SelectSeq(historical_data, IsCity)

\* try_get_historical_data with the dataset checked before the "city"
\* parameter; C8 must fail on it
try_get_historical_data_file_first(req) ==
    LET city == req.city
    IN  IF ~dataFile.has_attr
        THEN Outcome(Ok(ErrorResponse("Data not available",
                                      <<"Historical data file not found">>, 404)), <<>>)
        ELSE IF ~dataFile.exists
        THEN Outcome(Ok(ErrorResponse("Data not available",
                                      <<"Historical data file not found">>, 404)),
                     <<"exists">>)
        ELSE IF ~Truthy(city)
        THEN Outcome(Ok(ErrorResponse("Missing parameter",
                                      <<"City parameter is required">>, 400)),
                     <<"exists">>)
        ELSE LET historical_data == read_csv(dataFile)
                 ops == <<"exists", "read_csv">>
             IN  IF historical_data.raises THEN Outcome(historical_data, ops)
                 ELSE LET city_data == filter_city(historical_data.val, city)
                      IN  IF city_data = <<>>
                          THEN Outcome(Ok(ErrorResponse("Data not found",
                                   <<"No historical data available for ">> \o city.s,
                                   404)), ops)
                          ELSE Outcome(Ok(SuccessResponse(
                                   [city |-> city,
                                    historical_data |-> formatted_data(city_data),
                                    status |-> "success"])), ops)

\* lines 96-142: the body of the try block; calls are the dataset operations
try_get_historical_data(req) ==
    LET city == req.city
    IN  IF ~Truthy(city)
        THEN Outcome(Ok(ErrorResponse("Missing parameter",
                                      <<"City parameter is required">>, 400)), <<>>)
        ELSE IF ~dataFile.has_attr
        THEN Outcome(Ok(ErrorResponse("Data not available",
                                      <<"Historical data file not found">>, 404)), <<>>)
        ELSE IF ~dataFile.exists
        THEN Outcome(Ok(ErrorResponse("Data not available",
                                      <<"Historical data file not found">>, 404)),
                     <<"exists">>)
        ELSE LET historical_data == read_csv(dataFile)
                 ops == <<"exists", "read_csv">>
             IN  IF historical_data.raises THEN Outcome(historical_data, ops)
                 ELSE LET city_data == filter_city(historical_data.val, city)
                      IN  IF city_data = <<>>
                          THEN Outcome(Ok(ErrorResponse("Data not found",
                                   <<"No historical data available for ">> \o city.s,
                                   404)), ops)
                          ELSE Outcome(Ok(SuccessResponse(
                                   [city |-> city,
                                    historical_data |-> formatted_data(city_data),
                                    status |-> "success"])), ops)

\* lines 144-149: except Exception as e
except_get_historical_data(out) ==
    IF out.r.raises
    THEN ErrorResponse(out.r.exc.msg, <<"Failed to fetch historical data">>, 500)
    ELSE out.r.val

(***************************************************************************)
(* The collaborators' answers and the requests the model draws from.       *)
(***************************************************************************)
SeqsUpTo(S, n) == UNION {[1..k -> S] : k \in 0..n}

Pune == <<"P", "u", "n", "e">>
Oslo == <<"O", "s", "l", "o">>
Rome == <<"R", "o", "m", "e">>

TextDate(text) == [kind |-> "str", text |-> text]
NativeDate(value) == [kind |-> "native", value |-> value]
NsDate(days, secs) == [kind |-> "num", nan |-> FALSE, days |-> days, secs |-> secs]
NsNaN == [kind |-> "num", nan |-> TRUE, days |-> 0, secs |-> 0]

\* the values row['time'] takes: text, a native date/time (NaT included: it
\* has strftime), a nanosecond count (the last one past Timestamp.max)
Text_2024_07_01 == TextDate(<<"2", "0", "2", "4", "-", "0", "7", "-", "0", "1">>)
Text_2023_12_31 == TextDate(<<"2", "0", "2", "3", "-", "1", "2", "-", "3", "1">>)
Text_2024_02_30 == TextDate(<<"2", "0", "2", "4", "-", "0", "2", "-", "3", "0">>)
Native_2024_07_01 == NativeDate(Timestamp(2024, 7, 1))
Ns_2024_07_01 == NsDate(19905, 86399)
Ns_2023_12_31 == NsDate(19722, 0)
Ns_OutOfBounds == NsDate(106752, 0)

ForecastRow(time, temp, is_heatwave, heatwave_probability) ==
    [time |-> time,
     temperature_2m_max |-> temp,
     apparent_temperature_max |-> temp + 3,
     relative_humidity_2m_mean |-> 30,
     wind_speed_10m_max |-> 12,
     cloud_cover_mean |-> 5,
     precipitation_sum |-> 0,
     is_heatwave |-> is_heatwave,
     heatwave_probability |-> heatwave_probability,
     alert_level |-> IF PyInt(is_heatwave) = 1 THEN "High" ELSE "Normal",
     alert_color |-> IF PyInt(is_heatwave) = 1 THEN "red" ELSE "green",
     recommended_action |-> "Stay hydrated"]

\* the rows of a forecast table: the flag is 0/1 as an integer, a boolean or
\* a float, the probability lies in 0.0..1.0
ForecastRows ==
    { ForecastRow(Text_2024_07_01, 35, PyNum(0), PyFloat(0)),
      ForecastRow(Text_2023_12_31, 36, PyNum(1), PyFloat(100)),
      ForecastRow(Text_2024_02_30, 37, PyBool(FALSE), PyFloat(35)),
      ForecastRow(Native_2024_07_01, 38, PyBool(TRUE), PyFloat(80)),
      ForecastRow(NativeDate(NaT), 39, PyNum(0), PyNum(0)),
      ForecastRow(Ns_2024_07_01, 40, PyFloat(100), PyNum(1)),
      ForecastRow(Ns_2023_12_31, 41, PyFloat(0), PyFloat(10)),
      ForecastRow(NsNaN, 42, PyNum(1), PyFloat(65)),
      ForecastRow(Ns_OutOfBounds, 43, PyNum(0), PyFloat(20)) }

ForecastOutcomes ==
    {Raise("ValueError", "City not found"),
     Raise("ConnectionError", "Weather service unavailable")}
    \cup {Ok(t) : t \in SeqsUpTo(ForecastRows, MaxRows)}

HistoricalRecord(city, year, temp, hw, precip) ==
    [city |-> city, year |-> year, temperature_2m_max |-> temp,
     is_heatwave |-> hw, precipitation_sum |-> precip,
     relative_humidity_2m_mean |-> 90 - temp]

HistoricalRecords ==
    {HistoricalRecord(Pune, y, t, w[1], w[2]) :
        y \in {2020, 2021}, t \in {30, 35}, w \in {<<0, 0>>, <<1, 0>>, <<0, 2>>}}
    \cup {HistoricalRecord(Oslo, y, 12, 0, 7) : y \in {2020, 2021}}

DataFile(has_attr, exists, readable, rows) ==
    [has_attr |-> has_attr, exists |-> exists, readable |-> readable, rows |-> rows]

\* model.data_file: not an attribute of the model, a path that does not
\* exist, a file pandas cannot read, or a table of at most n rows
DataFiles(n) ==
    {DataFile(FALSE, FALSE, FALSE, <<>>), DataFile(TRUE, FALSE, FALSE, <<>>),
     DataFile(TRUE, TRUE, FALSE, <<>>)}
    \cup {DataFile(TRUE, TRUE, TRUE, rows) : rows \in SeqsUpTo(HistoricalRecords, n)}

JsonValues ==
    { PyNone, PyBool(TRUE), PyBool(FALSE), PyNum(0), PyNum(5),
      PyStr(<<>>), PyStr(<<"h", "i">>), PyStr(CITY), PyStr(<<"a">> \o CITY),
      PyList(<<>>), PyList(<<PyNum(5)>>), PyList(<<PyStr(CITY)>>),
      PyDict(<<>>), PyDict(<< <<(<<"n">>), PyStr(Pune)>> >>),
      PyDict(<< <<CITY, PyStr(Pune)>> >>),
      PyDict(<< <<(<<"n">>), PyNum(5)>>, <<CITY, PyStr(Oslo)>> >>),
      PyDict(<< <<CITY, PyStr(<<>>)>> >>),
      PyDict(<< <<CITY, PyNone>> >>) }

PostRequest(content_type, present, wellformed, value) ==
    [route |-> "POST /heatwave", content_type |-> content_type,
     body |-> [present |-> present, wellformed |-> wellformed, value |-> value]]

PostRequests ==
    {PostRequest(JSON, FALSE, FALSE, PyNone), PostRequest(JSON, TRUE, FALSE, PyNone),
     PostRequest(PLAIN, TRUE, FALSE, PyNone),
     PostRequest(PLAIN, TRUE, TRUE, PyDict(<< <<CITY, PyStr(Pune)>> >>)),
     PostRequest(FORM, TRUE, TRUE, PyDict(<< <<CITY, PyStr(Pune)>> >>))}
    \cup {PostRequest(JSON, TRUE, TRUE, v) : v \in JsonValues}

GetRequest(city) == [route |-> "GET /api/historical", city |-> city]

\* request.args.get('city'): None when the parameter is absent
GetRequests == {GetRequest(c) : c \in {PyNone, PyStr(<<>>), PyStr(Pune), PyStr(Oslo), PyStr(Rome)}}

(***************************************************************************)
(* The state machine.                                                      *)
(***************************************************************************)
NoRequest == [route |-> "none"]
NoResponse == [code |-> 0, body |-> [status |-> "none"]]

Idle ==
    /\ request = NoRequest
    /\ response = NoResponse
    /\ modelCalls = <<>>
    /\ datasetOps = <<>>

\* The routes share nothing: POST /heatwave never reads the file and GET
\* /api/historical never calls the Model.  A run therefore starts either with
\* any answer of the Model and an empty dataset, or with any dataset file of at
\* most MaxSpecRecords rows and a Model that returns an empty table.
Init ==
    /\ \/ /\ forecastOutcome \in ForecastOutcomes
          /\ dataFile = DataFile(TRUE, TRUE, TRUE, <<>>)
       \/ /\ forecastOutcome = Ok(<<>>)
          /\ dataFile \in DataFiles(MaxSpecRecords)
    /\ Idle

\* the runs of GET /api/historical alone, over every dataset file of at most
\* MaxRecords rows
InitHistorical ==
    /\ forecastOutcome = Ok(<<>>)
    /\ dataFile \in DataFiles(MaxRecords)
    /\ Idle

\* lines 16-91
predict_heatwave(req) ==
    \E parsed \in get_json(req) :
        LET out == try_predict_heatwave(req, parsed)
        IN  /\ request' = req
            /\ response' = except_predict_heatwave(out)
            /\ modelCalls' = out.calls
            /\ datasetOps' = <<>>
            /\ UNCHANGED <<forecastOutcome, dataFile>>

\* lines 93-149
get_historical_data(req) ==
    LET out == try_get_historical_data(req)
    IN  /\ request' = req
        /\ response' = except_get_historical_data(out)
        /\ modelCalls' = <<>>
        /\ datasetOps' = out.calls
        /\ UNCHANGED <<forecastOutcome, dataFile>>

Next ==
    \/ \E req \in PostRequests : predict_heatwave(req)
    \/ \E req \in GetRequests : get_historical_data(req)

NextHistorical == \E req \in GetRequests : get_historical_data(req)

Spec == Init /\ [][Next]_vars

SpecHistorical == InitHistorical /\ [][NextHistorical]_vars

(***************************************************************************)
(* The claims.                                                             *)
(***************************************************************************)
IsPost == request.route = "POST /heatwave"
IsGet == request.route = "GET /api/historical"

HasCityKey(v) == v.t = "dict" /\ \E i \in 1..Len(v.pairs) : v.pairs[i][1] = CITY

CityValue(v) == v.pairs[CHOOSE i \in 1..Len(v.pairs) : v.pairs[i][1] = CITY][2]

EnvelopeKeys == {"error", "message", "status"}

\* C1: in POST /heatwave the Model's predict is invoked only if the body is
\* present, is valid JSON, parses to an object and that object has a
\* non-empty "city"; in every other case the request is rejected and the
\* Model is not called.
C1_ModelInvokedOnlyForNonEmptyCity ==
    IsPost =>
        LET accepted ==
                /\ request.body.present
                /\ request.body.wellformed
                /\ HasCityKey(request.body.value)
                /\ CityValue(request.body.value) \notin {PyStr(<<>>), PyNone}
        IN  ~accepted => (modelCalls = <<>> /\ response.code # 200)

\* C2: a POST /heatwave request whose non-empty body is not valid JSON gets
\* status 400 and error "Invalid JSON" (stated for requests that declare
\* application/json).
C2_InvalidJsonIs400 ==
    (IsPost /\ request.content_type = JSON
        /\ request.body.present /\ ~request.body.wellformed)
    => (response.code = 400 /\ response.body.error = "Invalid JSON")

\* C3: a POST /heatwave request whose body is valid JSON of any kind with no
\* "city" field gets status 400 and error "Missing parameter".
C3_NoCityFieldIs400 ==
    (IsPost /\ request.content_type = JSON
        /\ request.body.present /\ request.body.wellformed
        /\ ~HasCityKey(request.body.value))
    => (response.code = 400 /\ response.body.error = "Missing parameter")

\* a request that is at fault by itself: no body, a body that is not JSON,
\* JSON without a "city" field, no "city" query parameter
ClientInputFault ==
    \/ /\ IsPost
       /\ \/ ~request.body.present
          \/ /\ request.content_type = JSON
             /\ \/ ~request.body.wellformed
                \/ ~HasCityKey(request.body.value)
    \/ /\ IsGet
       /\ request.city \in {PyNone, PyStr(<<>>)}

\* the data asked for is not there: no dataset file, or no row for the city
MissingData ==
    /\ IsGet
    /\ request.city \notin {PyNone, PyStr(<<>>)}
    /\ \/ ~dataFile.has_attr
       \/ ~dataFile.exists
       \/ /\ dataFile.readable
          /\ \A i \in 1..Len(dataFile.rows) : dataFile.rows[i].city # request.city.s

\* C4: every non-2xx response of the two handlers has exactly the keys error,
\* message and status, with status "error", and its code is 400 for a client
\* input fault, 404 for missing data and 500 for an unexpected failure; every
\* 2xx response has status "success".
C4_ErrorEnvelopeAndStatusClass ==
    (IsPost \/ IsGet) =>
        /\ response.code = 200 => response.body.status = "success"
        /\ response.code # 200 =>
              /\ DOMAIN response.body = EnvelopeKeys
              /\ response.body.status = "error"
              /\ response.code \in {400, 404, 500}
        /\ ClientInputFault => response.code = 400
        /\ MissingData => response.code = 404
        /\ response.code = 500 => ~ClientInputFault /\ ~MissingData

\* The part of C4 that does not classify the fault: the envelope's shape.
ErrorEnvelopeShape ==
    (IsPost \/ IsGet) =>
        /\ response.code = 200 => response.body.status = "success"
        /\ response.code # 200 =>
              /\ DOMAIN response.body = EnvelopeKeys
              /\ response.body.status = "error"
              /\ response.code \in {400, 404, 500}

\* a forecast row whose date is a nanosecond count past Timestamp.max
DateOutOfBounds(row) ==
    row.time.kind = "num" /\ ~row.time.nan /\ row.time.days > 106751

\* C5: in both routes an exception raised by the Model, by the dataset read
\* or by the formatter after validation has passed gives a 500 response whose
\* error is the exception's message, whose message is the route's fixed text
\* and which has no other key (no partial success body).
C5_ExceptionsBecome500 ==
    /\ (IsPost /\ modelCalls # <<>> /\ forecastOutcome.raises) =>
          /\ response.code = 500
          /\ response.body = [error |-> forecastOutcome.exc.msg,
                              message |-> <<"Failed to process your request">>,
                              status |-> "error"]
    /\ (IsPost /\ modelCalls # <<>> /\ ~forecastOutcome.raises
            /\ \E i \in 1..Len(forecastOutcome.val) :
                  DateOutOfBounds(forecastOutcome.val[i])) =>
          /\ response.code = 500
          /\ response.body = [error |-> "cannot convert input with the unit 'ns'",
                              message |-> <<"Failed to process your request">>,
                              status |-> "error"]
    /\ (IsGet /\ datasetOps = <<"exists", "read_csv">> /\ ~dataFile.readable) =>
          /\ response.code = 500
          /\ response.body = [error |-> "No columns to parse from file",
                              message |-> <<"Failed to fetch historical data">>,
                              status |-> "error"]

\* C5 witness: the Model was called, raised, and the handler answered 500.
C5_Witness ==
    /\ IsPost
    /\ modelCalls # <<>>
    /\ forecastOutcome.raises
    /\ response.code = 500

\* the flag of a forecast row is set
FlagSet(x) == x \in {PyNum(1), PyBool(TRUE), PyFloat(100)}

\* the probability of a forecast row, in hundredths
Hundredths(x) == IF x.t = "float" THEN x.h ELSE 100 * x.n

\* C6: a 200 response of POST /heatwave echoes the requested city and its
\* predictions are the Model's N rows, in the Model's order, the i-th entry
\* built from the i-th row, with is_heatwave in {0, 1} and
\* heatwave_probability in [0.0, 1.0].
C6_PredictionsMirrorForecast ==
    (IsPost /\ response.code = 200) =>
        /\ ~forecastOutcome.raises
        /\ response.body.city = CityValue(request.body.value)
        /\ modelCalls = <<response.body.city>>
        /\ LET rows == forecastOutcome.val
               predictions == response.body.predictions
           IN  /\ Len(predictions) = Len(rows)
               /\ \A i \in 1..Len(rows) :
                     /\ predictions[i].temperature_2m_max = rows[i].temperature_2m_max
                     /\ predictions[i].apparent_temperature_max
                            = rows[i].apparent_temperature_max
                     /\ predictions[i].alert_level = rows[i].alert_level
                     /\ predictions[i].recommended_action = rows[i].recommended_action
                     /\ predictions[i].is_heatwave \in {0, 1}
                     /\ (predictions[i].is_heatwave = 1) <=> FlagSet(rows[i].is_heatwave)
                     /\ predictions[i].heatwave_probability.t = "float"
                     /\ predictions[i].heatwave_probability.h \in 0..100
                     /\ predictions[i].heatwave_probability.h
                            = Hundredths(rows[i].heatwave_probability)

\* C6 witness: a 200 response carrying two different forecast entries.
C6_Witness ==
    /\ IsPost
    /\ response.code = 200
    /\ Len(response.body.predictions) = 2
    /\ response.body.predictions[1].temperature_2m_max
           # response.body.predictions[2].temperature_2m_max
    /\ response.body.predictions[1].is_heatwave
           # response.body.predictions[2].is_heatwave

SameDay_2024_07_01 == {Text_2024_07_01, Native_2024_07_01, Ns_2024_07_01}
SameDay_2023_12_31 == {Text_2023_12_31, Ns_2023_12_31}
Unparseable == {Text_2024_02_30, NativeDate(NaT), NsNaN, Ns_OutOfBounds}

\* C7: text, a native date and a nanosecond count for the same calendar day
\* give the same YYYY-MM-DD string, and a date of any of these kinds that
\* cannot be parsed gives "N/A" for its row while the request still succeeds.
C7_DateNormalization ==
    (IsPost /\ modelCalls # <<>> /\ ~forecastOutcome.raises) =>
        /\ response.code = 200
        /\ \A i \in 1..Len(forecastOutcome.val) :
              LET time == forecastOutcome.val[i].time
                  date == response.body.predictions[i].date
              IN  /\ time \in SameDay_2024_07_01 => date = Text_2024_07_01.text
                  /\ time \in SameDay_2023_12_31 => date = Text_2023_12_31.text
                  /\ time \in Unparseable => date = NotAvailable

\* The part of C7 that holds: whenever the request succeeds the dates are
\* normalized as C7 says; the request succeeds unless a nanosecond count is
\* out of the Timestamp range.
DateNormalizationWhenInBounds ==
    (IsPost /\ modelCalls # <<>> /\ ~forecastOutcome.raises) =>
        /\ response.code = 200
              <=> ~\E i \in 1..Len(forecastOutcome.val) :
                       DateOutOfBounds(forecastOutcome.val[i])
        /\ response.code = 200 =>
              \A i \in 1..Len(forecastOutcome.val) :
                  LET time == forecastOutcome.val[i].time
                      date == response.body.predictions[i].date
                  IN  /\ time \in SameDay_2024_07_01 => date = Text_2024_07_01.text
                      /\ time \in SameDay_2023_12_31 => date = Text_2023_12_31.text
                      /\ time \in Unparseable => date = NotAvailable

\* the "city" query parameter is there and not empty
CityGiven == request.city.t = "str" /\ request.city.s # <<>>

\* the positions of the dataset rows of the requested city
CityRows == {i \in 1..Len(dataFile.rows) : dataFile.rows[i].city = request.city.s}

\* C8: GET /api/historical answers by the first failing check, in this order:
\* no or an empty "city" gives 400 "Missing parameter" before the dataset is
\* touched; else a dataset path that does not exist gives 404 "Data not
\* available"; else no record for the city gives 404 "Data not found" with the
\* city in the message; a 200 response is returned only when all three pass.
C8_HistoricalCheckOrder ==
    IsGet =>
        /\ ~CityGiven =>
              /\ response.code = 400
              /\ response.body.error = "Missing parameter"
              /\ datasetOps = <<>>
        /\ (CityGiven /\ ~(dataFile.has_attr /\ dataFile.exists)) =>
              /\ response.code = 404
              /\ response.body.error = "Data not available"
              /\ \A i \in 1..Len(datasetOps) : datasetOps[i] # "read_csv"
        /\ (CityGiven /\ dataFile.has_attr /\ dataFile.exists /\ dataFile.readable
                /\ CityRows = {}) =>
              /\ response.code = 404
              /\ response.body.error = "Data not found"
              /\ IsSubstring(request.city.s, response.body.message)
        /\ response.code = 200 <=>
              /\ CityGiven
              /\ dataFile.has_attr /\ dataFile.exists /\ dataFile.readable
              /\ CityRows # {}

\* C8 witness: the city is given, the file is there and holds rows, none of
\* them for the city: 404 "Data not found".
C8_Witness ==
    /\ IsGet
    /\ CityGiven
    /\ dataFile.rows # <<>>
    /\ response.code = 404
    /\ response.body.error = "Data not found"

RECURSIVE SumOver(_, _, _)
SumOver(rows, name, S) ==
    IF S = {} THEN 0
    ELSE LET i == CHOOSE j \in S : TRUE
         IN  rows[i][name] + SumOver(rows, name, S \ {i})

\* C9: a 200 response of GET /api/historical holds exactly one summary per
\* distinct year of the requested city's records (none missing, none twice,
\* no other city's record counted); max_temp, min_temp and avg_temp are the
\* maximum, minimum and mean of that city-year's max-temperatures,
\* heatwave_days counts its heatwave days, precipitation sums its
\* precipitation.
C9_YearSummaries ==
    (IsGet /\ response.code = 200) =>
        LET rows == dataFile.rows
            summaries == response.body.historical_data
        IN  /\ {summaries[k].year : k \in 1..Len(summaries)}
                   = {rows[i].year : i \in CityRows}
            /\ \A k, l \in 1..Len(summaries) :
                   summaries[k].year = summaries[l].year => k = l
            /\ \A k \in 1..Len(summaries) :
                   LET S == {i \in CityRows : rows[i].year = summaries[k].year}
                       sm == summaries[k]
                   IN  /\ \E i \in S : rows[i].temperature_2m_max = sm.max_temp
                       /\ \A i \in S : rows[i].temperature_2m_max <= sm.max_temp
                       /\ \E i \in S : rows[i].temperature_2m_max = sm.min_temp
                       /\ \A i \in S : rows[i].temperature_2m_max >= sm.min_temp
                       /\ sm.avg_temp.den > 0
                       /\ sm.avg_temp.num * Cardinality(S)
                              = SumOver(rows, "temperature_2m_max", S) * sm.avg_temp.den
                       /\ sm.heatwave_days
                              = Cardinality({i \in S : rows[i].is_heatwave = 1})
                       /\ sm.precipitation = SumOver(rows, "precipitation_sum", S)

\* C9 witness: a 200 response with two year summaries, from a file that also
\* holds another city's record.
C9_Witness ==
    /\ IsGet
    /\ response.code = 200
    /\ Len(response.body.historical_data) = 2
    /\ \E i \in 1..Len(dataFile.rows) : dataFile.rows[i].city # request.city.s

\* C10: the year summaries of a 200 response of GET /api/historical are in
\* strictly ascending year order, whatever the order of the file's rows.
C10_YearsAscending ==
    (IsGet /\ response.code = 200) =>
        \A k, l \in 1..Len(response.body.historical_data) :
            k < l => response.body.historical_data[k].year
                        < response.body.historical_data[l].year

\* What the code gives in place of C10: the years in the order in which they
\* first appear among the city's rows of the file.
YearsInOrderOfFirstAppearance ==
    (IsGet /\ response.code = 200) =>
        LET rows == dataFile.rows
            summaries == response.body.historical_data
            First(y) == CHOOSE i \in CityRows :
                            /\ rows[i].year = y
                            /\ \A j \in CityRows : rows[j].year = y => i <= j
        IN  \A k, l \in 1..Len(summaries) :
                k < l => First(summaries[k].year) < First(summaries[l].year)

=============================================================================
